---- MODULE Spec2Model ----
(***************************************************************************)
(* PantryChef (recipe-viability): the relational stores, the               *)
(* recipe_recommendations view and the page handlers that read and write   *)
(* them.                                                                   *)
(*                                                                         *)
(* Numbers: v_score is a NUMERIC with two decimals; it is held here in     *)
(* hundredths (10000 is 100.00, 5000 is 50.00).                            *)
(* Rows: a user_pantry / user_restrictions / recipe_components row is      *)
(* identified by its UNIQUE key (the uuid primary key is one-to-one with   *)
(* it while the row exists); the columns unit, notes and the timestamps    *)
(* are read by no query condition and are left out.                        *)
(*                                                                         *)
(* Four specifications share the tables: Spec is the application (one      *)
(* browser, its pages and handlers, each handler one step, over the seeded *)
(* catalog); StoreSpec is the database under the statements it accepts     *)
(* from any client: those of authenticated users on their own tables,      *)
(* subject to the policies, and the service role's on the catalog;         *)
(* PageSpec runs the mount effects of the four protected pages one await   *)
(* at a time; DialogSpec runs the Pantry or the Restrictions page with its *)
(* dialog, its form and its add and remove handlers one await at a time,   *)
(* so that calls in flight interleave.                                     *)
(***************************************************************************)
EXTENDS Integers, Sequences, FiniteSets, TLC

\* ------------------------------------------------------------------ bounds
MaxPantryRows == 2
MaxRestrictionRows == 1
MaxComponents == 3

\* ------------------------------------------------------------------- state
VARIABLES
  profiles,           \* public.profiles: set of user ids
  recipe_rows,        \* public.recipes: set of recipe ids
  ingredients,        \* public.ingredients: [id, name]
  recipe_components,  \* public.recipe_components: [recipe_id, ingredient_id, quantity]
  user_pantry,        \* public.user_pantry: [user_id, ingredient_id, quantity]
  user_restrictions,  \* public.user_restrictions: [user_id, ingredient_id, restriction_type]
  session,            \* supabase.auth session: a user id or NULL
  page,               \* the mounted route
  loading,            \* `loading` state of the mounted page component
  recipes,            \* Dashboard: `recipes` state
  pantryItems,        \* Pantry: `pantryItems` state
  restrictions,       \* Restrictions: `restrictions` state
  toast,              \* message of the last toast call of the mounted page
  dialogOpen,         \* Pantry / Restrictions: `dialogOpen` state
  form,               \* Pantry / Restrictions: the dialog's field states
  ingredientOptions,  \* Pantry / Restrictions: `ingredients` state (the dropdown's options)
  params_id,          \* Recipe: useParams().id
  recipe,             \* Recipe: `recipe` state
  components,         \* Recipe: `components` state
  calls               \* calls of async functions of the mounted page awaiting a response

vars == <<profiles, recipe_rows, ingredients, recipe_components, user_pantry,
          user_restrictions,
          session, page, loading, recipes, pantryItems, restrictions, toast,
          dialogOpen, form, ingredientOptions, params_id, recipe, components, calls>>
stores == <<profiles, recipe_rows, ingredients, recipe_components, user_pantry,
            user_restrictions>>
\* the tables the application never writes
catalog == <<recipe_rows, ingredients>>
\* the component state Spec and StoreSpec leave at its useState initial values
ui == <<dialogOpen, form, ingredientOptions, params_id, recipe, components, calls>>

\* ------------------------------------------------------- catalog and domains
\* auth.users ids that can sign up
Users == {"u1", "u2"}
\* the seeded rows of public.recipes (catalog data, never written by the application)
RecipeIds == {"r1", "r2"}
\* the seeded rows of public.ingredients: id and (unique) name
IngredientRows == {[id |-> "i1", name |-> "Eggs"], [id |-> "i2", name |-> "Cheese"]}
IngredientIds == {i.id : i \in ingredients}
\* values of the quantity <input> of the Add Ingredient dialog
Quantities == {1}
\* quantity column of the seeded recipe_components rows
ComponentQuantities == {2}
RestrictionTypes == {"allergy", "dietary"}
\* SQL NULL in a uuid column, and the absent session of supabase.auth
NULL == "NULL"
\* a value of an array column: SQL NULL, or an array of names
NullArray == [null |-> TRUE, array |-> <<>>]
Array(names) == [null |-> FALSE, array |-> names]
\* SQL NULL in a numeric column
NullNumeric == -1
\* text ordering of ingredient names (the order DISTINCT aggregation sorts by)
NameRank == [n \in {i.name : i \in IngredientRows} |-> IF n = "Cheese" THEN 1 ELSE 2]

\* ---------------------------------------------------------------- helpers
\* ROUND(n / d * 100, 2) of NUMERIC operands, in hundredths (half away from zero)
RoundPct(n, d) == (2 * n * 10000 + d) \div (2 * d)

RECURSIVE SortNames(_)
\* the names of S as an array in ascending text order
SortNames(S) ==
  IF S = {} THEN <<>>
  ELSE LET m == CHOOSE x \in S : \A y \in S : NameRank[x] <= NameRank[y]
       IN <<m>> \o SortNames(S \ {m})

\* ------------------------------------------ the recipe_recommendations view
\* faulty variant: the NOT EXISTS subquery without ur.user_id = p.id, so that
\* any user's restriction drops the requirement row
JoinRowsOver_AnyUserRestriction(pantry, restricted) ==
  { [r_id |-> r, rc_ingredient_id |-> rc.ingredient_id, i_name |-> i.name, p_id |-> p,
     up_user_id |-> IF \E up \in pantry :
                          rc.ingredient_id = up.ingredient_id /\ p = up.user_id
                    THEN p ELSE NULL,
     up_ingredient_id |-> IF \E up \in pantry :
                                rc.ingredient_id = up.ingredient_id /\ p = up.user_id
                          THEN rc.ingredient_id ELSE NULL] :
      <<r, rc, i, p>> \in
        { t \in recipe_rows \X recipe_components \X ingredients \X profiles :
            /\ t[1] = t[2].recipe_id
            /\ t[2].ingredient_id = t[3].id
            /\ ~ \E ur \in restricted : ur.ingredient_id = t[2].ingredient_id } }

\* variant: the view grouped by p.id instead of up.user_id, so that the
\* requirement rows the user does not own stay in the user's group
JoinRowsOver_GroupByProfile(pantry, restricted) ==
  { [r_id |-> r, rc_ingredient_id |-> rc.ingredient_id, i_name |-> i.name, p_id |-> p,
     up_user_id |-> p,
     up_ingredient_id |-> IF \E up \in pantry :
                                rc.ingredient_id = up.ingredient_id /\ p = up.user_id
                          THEN rc.ingredient_id ELSE NULL] :
      <<r, rc, i, p>> \in
        { t \in recipe_rows \X recipe_components \X ingredients \X profiles :
            /\ t[1] = t[2].recipe_id
            /\ t[2].ingredient_id = t[3].id
            /\ ~ \E ur \in restricted :
                   ur.user_id = t[4] /\ ur.ingredient_id = t[2].ingredient_id } }

\* variant: NOT EXISTS over every requirement of the recipe, so that one
\* restricted ingredient drops all the recipe's rows for that user
JoinRowsOver_RecipeLevelRestriction(pantry, restricted) ==
  { [r_id |-> r, rc_ingredient_id |-> rc.ingredient_id, i_name |-> i.name, p_id |-> p,
     up_user_id |-> IF \E up \in pantry :
                          rc.ingredient_id = up.ingredient_id /\ p = up.user_id
                    THEN p ELSE NULL,
     up_ingredient_id |-> IF \E up \in pantry :
                                rc.ingredient_id = up.ingredient_id /\ p = up.user_id
                          THEN rc.ingredient_id ELSE NULL] :
      <<r, rc, i, p>> \in
        { t \in recipe_rows \X recipe_components \X ingredients \X profiles :
            /\ t[1] = t[2].recipe_id
            /\ t[2].ingredient_id = t[3].id
            /\ ~ \E ur \in restricted, rc2 \in recipe_components :
                   /\ ur.user_id = t[4] /\ rc2.recipe_id = t[1]
                   /\ ur.ingredient_id = rc2.ingredient_id } }

\* FROM recipes r INNER JOIN recipe_components rc INNER JOIN ingredients i
\* CROSS JOIN profiles p LEFT JOIN user_pantry up ... WHERE NOT EXISTS (...),
\* with `pantry` the rows of user_pantry and `restricted` those of
\* user_restrictions
JoinRowsOver(pantry, restricted) ==
  { [r_id |-> r, rc_ingredient_id |-> rc.ingredient_id, i_name |-> i.name, p_id |-> p,
     up_user_id |-> IF \E up \in pantry :
                          rc.ingredient_id = up.ingredient_id /\ p = up.user_id
                    THEN p ELSE NULL,
     up_ingredient_id |-> IF \E up \in pantry :
                                rc.ingredient_id = up.ingredient_id /\ p = up.user_id
                          THEN rc.ingredient_id ELSE NULL] :
      <<r, rc, i, p>> \in
        { t \in recipe_rows \X recipe_components \X ingredients \X profiles :
            /\ t[1] = t[2].recipe_id
            /\ t[2].ingredient_id = t[3].id
            /\ ~ \E ur \in restricted :
                   ur.user_id = t[4] /\ ur.ingredient_id = t[2].ingredient_id } }

\* the join over the stored tables
JoinRows == JoinRowsOver(user_pantry, user_restrictions)

\* GROUP BY r.id, ..., up.user_id
GroupKeys(rows) == { <<j.r_id, j.up_user_id>> : j \in rows }
Group(rows, k) == { j \in rows : j.r_id = k[1] /\ j.up_user_id = k[2] }

\* COUNT(DISTINCT rc.ingredient_id)
total_ingredients(g) == Cardinality({ j.rc_ingredient_id : j \in g })
\* COUNT(DISTINCT up.ingredient_id)
owned_ingredients(g) == Cardinality({ j.up_ingredient_id : j \in g } \ {NULL})
\* faulty variant: the numerator counts up.user_id instead of up.ingredient_id
v_score_WrongColumn(g) ==
  IF total_ingredients(g) = 0 THEN NullNumeric
  ELSE RoundPct(Cardinality({ j.up_user_id : j \in g } \ {NULL}), total_ingredients(g))
\* ROUND(CAST(COUNT(DISTINCT up.ingredient_id) AS DECIMAL) /
\*       NULLIF(COUNT(DISTINCT rc.ingredient_id), 0) * 100, 2)
v_score(g) ==
  IF total_ingredients(g) = 0 THEN NullNumeric
  ELSE RoundPct(owned_ingredients(g), total_ingredients(g))
\* ARRAY_AGG(DISTINCT CASE WHEN up.ingredient_id IS NULL THEN i.name ELSE NULL END)
\*   FILTER (WHERE up.ingredient_id IS NULL)
missing_ingredients(g) ==
  LET filtered == { j \in g : j.up_ingredient_id = NULL }
  IN IF filtered = {} THEN NullArray
     ELSE Array(SortNames({ j.i_name : j \in filtered }))

\* the SELECT list, computed over the group g of key k
AggregateRow(k, g) ==
  [id |-> k[1], user_id |-> k[2],
   v_score |-> v_score(g),
   missing_ingredients |-> missing_ingredients(g),
   total_ingredients |-> total_ingredients(g),
   owned_ingredients |-> owned_ingredients(g)]

\* SELECT ... GROUP BY: one row per group of the joined rows
GroupedRowsOf(rows) == { AggregateRow(k, Group(rows, k)) : k \in GroupKeys(rows) }
GroupedRows ==
  LET rows == JoinRows
  IN GroupedRowsOf(rows)
\* HAVING COUNT(DISTINCT rc.ingredient_id) > 0
Having(grouped) == { row \in grouped : row.total_ingredients > 0 }

\* faulty variant: recipe_components LEFT JOINed, grouped by p.id, HAVING dropped
recipe_recommendations_OuterJoin ==
  GroupedRows \cup
    { [id |-> r, user_id |-> p, v_score |-> NullNumeric, missing_ingredients |-> NullArray,
       total_ingredients |-> 0, owned_ingredients |-> 0] :
        <<r, p>> \in { t \in recipe_rows \X profiles :
                        ~ \E rc \in recipe_components : rc.recipe_id = t[1] } }

\* the rows of the view
recipe_recommendations == Having(GroupedRows)

\* all arrays that enumerate rows in non-increasing v_score order
OrderedDesc(rows) ==
  LET n == Cardinality(rows)
  IN { s \in [1..n -> rows] :
         /\ \A a, b \in 1..n : a # b => s[a] # s[b]
         /\ \A a \in 1..n : a < n => s[a].v_score >= s[a + 1].v_score }

\* faulty variant: the query without .eq('user_id', userId) and without .order(...)
RecommendationQuery_Unfiltered(userId) ==
  LET rows == recipe_recommendations
      n == Cardinality(rows)
  IN { s \in [1..n -> rows] : \A a, b \in 1..n : a # b => s[a] # s[b] }

\* faulty variant: the filter also admits the rows whose user_id is NULL
RecommendationQuery_NullMatches(userId) ==
  OrderedDesc({ row \in recipe_recommendations :
                  row.user_id = NULL \/ row.user_id = userId })

\* faulty variant: the query with .limit(1) added
RecommendationQuery_Limit(userId) ==
  { IF s = <<>> THEN s ELSE <<s[1]>> : s \in OrderedDesc({ row \in recipe_recommendations :
                                           row.user_id # NULL /\ row.user_id = userId }) }

\* .from('recipe_recommendations').select('*').eq('user_id', userId)
\*   .order('v_score', { ascending: false }): every array the query may return
RecommendationQuery(userId) ==
  OrderedDesc({ row \in recipe_recommendations :
                  row.user_id # NULL /\ row.user_id = userId })

\* ------------------------------------------------------------ initial state
Pages == {"index", "auth", "dashboard", "pantry", "restrictions"}
\* the pages whose mount effect checks the session
ProtectedPages == {"dashboard", "pantry", "restrictions", "recipe"}
NoToast == "none"
\* useState initial values of the dialog's fields: Pantry has selectedIngredient,
\* quantity and unit, Restrictions has selectedIngredient, restrictionType and notes
InitialForm ==
  [selectedIngredient |-> "", quantity |-> "1", unit |-> "",
   restrictionType |-> "allergy", notes |-> ""]
\* the SQLSTATE a statement returns: 00000, or the error class of the
\* constraint or policy that rejected it
SuccessfulCompletion == "00000"
UniqueViolation == "23505"
ForeignKeyViolation == "23503"
InsufficientPrivilege == "42501"

\* the seeded catalogs: recipe_components is UNIQUE(recipe_id, ingredient_id)
Catalogs ==
  { c \in SUBSET [recipe_id : RecipeIds, ingredient_id : {i.id : i \in IngredientRows},
                  quantity : ComponentQuantities] :
      /\ Cardinality(c) <= MaxComponents
      /\ \A a, b \in c :
           (a.recipe_id = b.recipe_id /\ a.ingredient_id = b.ingredient_id) => a = b }

Init ==
  /\ profiles = {}
  /\ recipe_rows = RecipeIds
  /\ ingredients = IngredientRows
  /\ recipe_components \in Catalogs
  /\ user_pantry = {}
  /\ user_restrictions = {}
  /\ session = NULL
  /\ page = "index"
  /\ loading = FALSE
  /\ recipes = <<>>
  /\ pantryItems = {}
  /\ restrictions = {}
  /\ toast = NoToast
  /\ dialogOpen = FALSE
  /\ form = InitialForm
  /\ ingredientOptions = {}
  /\ params_id = NULL
  /\ recipe = NULL
  /\ components = {}
  /\ calls = {}

\* a route change unmounts the page and mounts the next one with its useState
\* initial values (loading starts true on the four data pages); what the
\* unmounted page still awaits no longer reaches a mounted component
MountAt(p, recipeId) ==
  /\ page' = p
  /\ loading' = (p \in ProtectedPages)
  /\ recipes' = <<>>
  /\ pantryItems' = {}
  /\ restrictions' = {}
  /\ toast' = NoToast
  /\ dialogOpen' = FALSE
  /\ form' = InitialForm
  /\ ingredientOptions' = {}
  /\ params_id' = recipeId
  /\ recipe' = NULL
  /\ components' = {}
  /\ calls' = {}

Mount(p) == MountAt(p, NULL)

\* ------------------------------------------------------------ auth and routes
\* AFTER INSERT ON auth.users: the sign-up trigger creates the profile row
handle_new_user(u) ==
  /\ u \notin profiles
  /\ profiles' = profiles \cup {u}
  /\ UNCHANGED <<catalog, recipe_components, user_pantry, user_restrictions,
                 session, page, loading, recipes, pantryItems, restrictions, toast, ui>>

\* the /auth page signs a registered user in and opens the dashboard
SignIn(u) ==
  /\ page = "auth"
  /\ session = NULL
  /\ u \in profiles
  /\ session' = u
  /\ Mount("dashboard")
  /\ UNCHANGED stores

\* the router mounts the page of a URL entered in the browser
OpenUrl(p) ==
  /\ Mount(p)
  /\ UNCHANGED <<stores, session>>

\* Index: the Get Started / Sign In buttons
Index_navigateAuth ==
  /\ page = "index"
  /\ Mount("auth")
  /\ UNCHANGED <<stores, session>>

\* Dashboard header: My Pantry / Restrictions buttons
Dashboard_navigate(p) ==
  /\ page = "dashboard" /\ ~loading
  /\ p \in {"pantry", "restrictions"}
  /\ Mount(p)
  /\ UNCHANGED <<stores, session>>

\* Pantry header: Back button
Pantry_navigateDashboard ==
  /\ page = "pantry" /\ ~loading
  /\ Mount("dashboard")
  /\ UNCHANGED <<stores, session>>

\* Restrictions header: Back button
Restrictions_navigateDashboard ==
  /\ page = "restrictions" /\ ~loading
  /\ Mount("dashboard")
  /\ UNCHANGED <<stores, session>>

\* Dashboard: signOut, then navigate('/')
handleSignOut ==
  /\ page = "dashboard" /\ ~loading
  /\ session' = NULL
  /\ Mount("index")
  /\ UNCHANGED stores

\* the session ends outside the page (expiry, sign-out elsewhere); the
\* Dashboard's onAuthStateChange subscription then navigates to /auth
onAuthStateChange ==
  /\ session # NULL
  /\ session' = NULL
  /\ IF page = "dashboard"
       THEN Mount("auth")
       ELSE UNCHANGED <<page, loading, recipes, pantryItems, restrictions, toast, ui>>
  /\ UNCHANGED stores

\* ------------------------------------------------------------------ Dashboard
\* faulty variant: the read is served from a result stored before the user's
\* pantry rows were written
fetchRecommendations_Stored(userId) ==
  /\ \E error \in BOOLEAN :
       IF error
         THEN /\ toast' = "Failed to load recommendations"
              /\ UNCHANGED recipes
         ELSE /\ \E data \in OrderedDesc(
                     { row \in Having(GroupedRowsOf(JoinRowsOver(
                                 user_pantry \ { up \in user_pantry : up.user_id = userId },
                                 user_restrictions))) :
                         row.user_id # NULL /\ row.user_id = userId }) : recipes' = data
              /\ UNCHANGED toast
  /\ loading' = FALSE

\* faulty variant: setLoading(false) inside the try block instead of finally
fetchRecommendations_NoFinally(userId) ==
  \E error \in BOOLEAN :
    IF error
      THEN /\ toast' = "Failed to load recommendations"
           /\ UNCHANGED <<recipes, loading>>
      ELSE /\ \E data \in RecommendationQuery(userId) : recipes' = data
           /\ loading' = FALSE
           /\ UNCHANGED toast

\* try { query; if (error) throw; setRecipes(data || []) }
\* catch { toast.error } finally { setLoading(false) }
fetchRecommendations(userId) ==
  /\ \E error \in BOOLEAN :
       IF error
         THEN /\ toast' = "Failed to load recommendations"
              /\ UNCHANGED recipes
         ELSE /\ \E data \in RecommendationQuery(userId) : recipes' = data
              /\ UNCHANGED toast
  /\ loading' = FALSE

\* faulty variant: the read also prunes the user's pantry rows of the
\* ingredients the user restricts
checkAuth_PrunesPantry ==
  /\ page = "dashboard" /\ loading
  /\ IF session = NULL
       THEN /\ Mount("auth")
            /\ UNCHANGED user_pantry
       ELSE /\ fetchRecommendations(session)
            /\ user_pantry' =
                 { up \in user_pantry :
                     ~(up.user_id = session /\
                       \E ur \in user_restrictions :
                         ur.user_id = session /\ ur.ingredient_id = up.ingredient_id) }
            /\ UNCHANGED <<page, pantryItems, restrictions, ui>>
  /\ UNCHANGED <<profiles, recipe_rows, ingredients, recipe_components, user_restrictions,
                 session>>

\* the mount effect of Dashboard
checkAuth ==
  /\ page = "dashboard" /\ loading
  /\ IF session = NULL
       THEN Mount("auth")
       ELSE /\ fetchRecommendations(session)
            /\ UNCHANGED <<page, pantryItems, restrictions, ui>>
  /\ UNCHANGED <<stores, session>>

\* -------------------------------------------------------------------- Pantry
\* select ... from user_pantry where user_id = userId, under the policy
\* "Users can view own pantry" (auth.uid() = user_id)
PantryRowsOf(table, userId) ==
  { up \in table : up.user_id = userId /\ up.user_id = session }

\* fetchPantryItems / fetchIngredients run together; each either sets its
\* state or toasts its own failure (the later toast is the one kept)
Pantry_checkAuthAndLoad ==
  /\ page = "pantry" /\ loading
  /\ IF session = NULL
       THEN Mount("auth")
       ELSE /\ \E itemsError, ingredientsError \in BOOLEAN :
                 /\ pantryItems' = IF itemsError THEN pantryItems ELSE PantryRowsOf(user_pantry, session)
                 /\ toast' \in
                      (IF itemsError THEN {"Failed to load pantry items"} ELSE {})
                      \cup (IF ingredientsError THEN {"Failed to load ingredients"} ELSE {})
                      \cup (IF ~itemsError /\ ~ingredientsError THEN {toast} ELSE {})
            /\ loading' = FALSE
            /\ UNCHANGED <<page, recipes, restrictions, ui>>
  /\ UNCHANGED <<stores, session>>

\* the Add to Pantry button; selectedIngredient and quantity are the values
\* of the dialog's fields when it is pressed. The inserted row has
\* user_id = auth.uid(), so the INSERT policy's WITH CHECK always passes; the
\* insert fails on a transport error or on UNIQUE(user_id, ingredient_id)
addToPantry(selectedIngredient, quantity) ==
  /\ page = "pantry" /\ ~loading
  /\ IF selectedIngredient = ""
       THEN /\ toast' = "Please select an ingredient"
            /\ UNCHANGED <<user_pantry, pantryItems>>
     ELSE IF session = NULL
       THEN /\ toast' = "Not authenticated"
            /\ UNCHANGED <<user_pantry, pantryItems>>
     ELSE \E insertError \in BOOLEAN :
            LET row == [user_id |-> session, ingredient_id |-> selectedIngredient,
                        quantity |-> quantity]
                \* UNIQUE(user_id, ingredient_id)
                duplicate == \E up \in user_pantry :
                               up.user_id = row.user_id /\ up.ingredient_id = row.ingredient_id
            IN IF insertError \/ duplicate
                 THEN /\ toast' = "insert error"
                      /\ UNCHANGED <<user_pantry, pantryItems>>
                 ELSE /\ Cardinality(user_pantry) < MaxPantryRows
                      /\ user_pantry' = user_pantry \cup {row}
                      /\ \E fetchError \in BOOLEAN :
                           IF fetchError
                             THEN /\ toast' = "Failed to load pantry items"
                                  /\ UNCHANGED pantryItems
                             ELSE /\ toast' = "Ingredient added to pantry"
                                  /\ pantryItems' = PantryRowsOf(user_pantry', session)
  /\ UNCHANGED <<catalog, profiles, recipe_components, user_restrictions,
                 session, page, loading, recipes, restrictions, ui>>

\* the trash button of a displayed item: delete().eq('id', itemId) under the
\* policy "Users can delete own pantry items"
removeFromPantry(itemId) ==
  /\ page = "pantry" /\ ~loading
  /\ itemId \in pantryItems
  /\ \E error \in BOOLEAN :
       IF error
         THEN /\ toast' = "Failed to remove ingredient"
              /\ UNCHANGED <<user_pantry, pantryItems>>
         ELSE /\ user_pantry' = { up \in user_pantry : ~(up = itemId /\ up.user_id = session) }
              /\ toast' = "Ingredient removed from pantry"
              /\ pantryItems' = { item \in pantryItems : item # itemId }
  /\ UNCHANGED <<catalog, profiles, recipe_components, user_restrictions,
                 session, page, loading, recipes, restrictions, ui>>

\* -------------------------------------------------------------- Restrictions
\* select ... from user_restrictions where user_id = userId, under the policy
\* "Users can view own restrictions"
RestrictionRowsOf(table, userId) ==
  { ur \in table : ur.user_id = userId /\ ur.user_id = session }

Restrictions_checkAuthAndLoad ==
  /\ page = "restrictions" /\ loading
  /\ IF session = NULL
       THEN Mount("auth")
       ELSE /\ \E itemsError, ingredientsError \in BOOLEAN :
                 /\ restrictions' = IF itemsError THEN restrictions
                                    ELSE RestrictionRowsOf(user_restrictions, session)
                 /\ toast' \in
                      (IF itemsError THEN {"Failed to load restrictions"} ELSE {})
                      \cup (IF ingredientsError THEN {"Failed to load ingredients"} ELSE {})
                      \cup (IF ~itemsError /\ ~ingredientsError THEN {toast} ELSE {})
            /\ loading' = FALSE
            /\ UNCHANGED <<page, recipes, pantryItems, ui>>
  /\ UNCHANGED <<stores, session>>

addRestriction(selectedIngredient, restrictionType) ==
  /\ page = "restrictions" /\ ~loading
  /\ IF selectedIngredient = ""
       THEN /\ toast' = "Please select an ingredient"
            /\ UNCHANGED <<user_restrictions, restrictions>>
     ELSE IF session = NULL
       THEN /\ toast' = "Not authenticated"
            /\ UNCHANGED <<user_restrictions, restrictions>>
     ELSE \E insertError \in BOOLEAN :
            LET row == [user_id |-> session, ingredient_id |-> selectedIngredient,
                        restriction_type |-> restrictionType]
                \* UNIQUE(user_id, ingredient_id)
                duplicate == \E ur \in user_restrictions :
                               ur.user_id = row.user_id /\ ur.ingredient_id = row.ingredient_id
            IN IF insertError \/ duplicate
                 THEN /\ toast' = "insert error"
                      /\ UNCHANGED <<user_restrictions, restrictions>>
                 ELSE /\ Cardinality(user_restrictions) < MaxRestrictionRows
                      /\ user_restrictions' = user_restrictions \cup {row}
                      /\ \E fetchError \in BOOLEAN :
                           IF fetchError
                             THEN /\ toast' = "Failed to load restrictions"
                                  /\ UNCHANGED restrictions
                             ELSE /\ toast' = "Restriction added successfully"
                                  /\ restrictions' = RestrictionRowsOf(user_restrictions', session)
  /\ UNCHANGED <<catalog, profiles, recipe_components, user_pantry,
                 session, page, loading, recipes, pantryItems, ui>>

removeRestriction(restrictionId) ==
  /\ page = "restrictions" /\ ~loading
  /\ restrictionId \in restrictions
  /\ \E error \in BOOLEAN :
       IF error
         THEN /\ toast' = "Failed to remove restriction"
              /\ UNCHANGED <<user_restrictions, restrictions>>
         ELSE /\ user_restrictions' =
                   { ur \in user_restrictions : ~(ur = restrictionId /\ ur.user_id = session) }
              /\ toast' = "Restriction removed"
              /\ restrictions' = { r \in restrictions : r # restrictionId }
  /\ UNCHANGED <<catalog, profiles, recipe_components, user_pantry,
                 session, page, loading, recipes, pantryItems, ui>>

\* ------------------------------------------- statements sent to the store
\* The tables as they answer SQL statements: of role authenticated with
\* auth.uid() = caller (row level security applies), and of the service role
\* (catalog administration, row level security bypassed).
\* values of user_pantry.quantity (DECIMAL(10,2), no constraint) a statement carries
PantryQuantityValues == {1, 2}
\* values of recipe_components.quantity (DECIMAL(10,2) NOT NULL) a statement carries
RequirementQuantityValues == {0, 2}
PantryRowValues ==
  [user_id : Users, ingredient_id : {i.id : i \in IngredientRows}, quantity : PantryQuantityValues]
RestrictionRowValues ==
  [user_id : Users, ingredient_id : {i.id : i \in IngredientRows},
   restriction_type : RestrictionTypes]
ComponentRowValues ==
  [recipe_id : RecipeIds, ingredient_id : {i.id : i \in IngredientRows},
   quantity : RequirementQuantityValues]

\* faulty variant: the table without UNIQUE(user_id, ingredient_id)
user_pantry_insert_state_NoUnique(caller, row) ==
  IF caller # row.user_id THEN InsufficientPrivilege
  ELSE IF row.user_id \notin profiles \/ row.ingredient_id \notin IngredientIds
    THEN ForeignKeyViolation
  ELSE SuccessfulCompletion

\* outcome of INSERT INTO user_pantry: the policy's WITH CHECK, then
\* UNIQUE(user_id, ingredient_id), then the two foreign keys
user_pantry_insert_state(caller, row) ==
  IF caller # row.user_id THEN InsufficientPrivilege
  ELSE IF \E up \in user_pantry :
            up.user_id = row.user_id /\ up.ingredient_id = row.ingredient_id
    THEN UniqueViolation
  ELSE IF row.user_id \notin profiles \/ row.ingredient_id \notin IngredientIds
    THEN ForeignKeyViolation
  ELSE SuccessfulCompletion

insert_user_pantry(caller, row) ==
  /\ IF user_pantry_insert_state(caller, row) = SuccessfulCompletion
       THEN /\ Cardinality(user_pantry) < MaxPantryRows
            /\ user_pantry' = user_pantry \cup {row}
       ELSE UNCHANGED user_pantry
  /\ UNCHANGED <<profiles, recipe_rows, ingredients, recipe_components, user_restrictions,
                 session, page, loading, recipes, pantryItems, restrictions, toast, ui>>

\* UPDATE user_pantry SET quantity = ... WHERE id = row.id: the policy's USING
\* leaves other users' rows out of the statement's reach
update_user_pantry(caller, row, quantity) ==
  /\ row \in user_pantry
  /\ user_pantry' =
       { IF up = row /\ up.user_id = caller THEN [up EXCEPT !.quantity = quantity] ELSE up :
           up \in user_pantry }
  /\ UNCHANGED <<profiles, recipe_rows, ingredients, recipe_components, user_restrictions,
                 session, page, loading, recipes, pantryItems, restrictions, toast, ui>>

\* DELETE FROM user_pantry WHERE id = row.id
delete_user_pantry(caller, row) ==
  /\ row \in user_pantry
  /\ user_pantry' = { up \in user_pantry : ~(up = row /\ up.user_id = caller) }
  /\ UNCHANGED <<profiles, recipe_rows, ingredients, recipe_components, user_restrictions,
                 session, page, loading, recipes, pantryItems, restrictions, toast, ui>>

\* outcome of INSERT INTO user_restrictions (restriction_type is drawn from
\* the values its CHECK admits)
user_restrictions_insert_state(caller, row) ==
  IF caller # row.user_id THEN InsufficientPrivilege
  ELSE IF \E ur \in user_restrictions :
            ur.user_id = row.user_id /\ ur.ingredient_id = row.ingredient_id
    THEN UniqueViolation
  ELSE IF row.user_id \notin profiles \/ row.ingredient_id \notin IngredientIds
    THEN ForeignKeyViolation
  ELSE SuccessfulCompletion

insert_user_restrictions(caller, row) ==
  /\ IF user_restrictions_insert_state(caller, row) = SuccessfulCompletion
       THEN /\ Cardinality(user_restrictions) < MaxRestrictionRows
            /\ user_restrictions' = user_restrictions \cup {row}
       ELSE UNCHANGED user_restrictions
  /\ UNCHANGED <<profiles, recipe_rows, ingredients, recipe_components, user_pantry,
                 session, page, loading, recipes, pantryItems, restrictions, toast, ui>>

\* DELETE FROM user_restrictions WHERE id = row.id
delete_user_restrictions(caller, row) ==
  /\ row \in user_restrictions
  /\ user_restrictions' = { ur \in user_restrictions : ~(ur = row /\ ur.user_id = caller) }
  /\ UNCHANGED <<profiles, recipe_rows, ingredients, recipe_components, user_pantry,
                 session, page, loading, recipes, pantryItems, restrictions, toast, ui>>

\* service role: INSERT INTO ingredients (a row not present: PRIMARY KEY, UNIQUE name)
insert_ingredient(row) ==
  /\ row \notin ingredients
  /\ ingredients' = ingredients \cup {row}
  /\ UNCHANGED <<profiles, recipe_rows, recipe_components, user_pantry, user_restrictions,
                 session, page, loading, recipes, pantryItems, restrictions, toast, ui>>

\* faulty variant: user_pantry.ingredient_id declared without REFERENCES
\* ingredients(id) ON DELETE CASCADE, so that the delete leaves the pantry rows
delete_ingredient_NoPantryReference(id) ==
  /\ id \in IngredientIds
  /\ ingredients' = { i \in ingredients : i.id # id }
  /\ recipe_components' = { rc \in recipe_components : rc.ingredient_id # id }
  /\ user_restrictions' = { ur \in user_restrictions : ur.ingredient_id # id }
  /\ UNCHANGED <<profiles, recipe_rows, user_pantry,
                 session, page, loading, recipes, pantryItems, restrictions, toast, ui>>

\* service role: DELETE FROM ingredients; the three REFERENCES
\* ingredients(id) ON DELETE CASCADE delete the referencing rows
delete_ingredient(id) ==
  /\ id \in IngredientIds
  /\ ingredients' = { i \in ingredients : i.id # id }
  /\ recipe_components' = { rc \in recipe_components : rc.ingredient_id # id }
  /\ user_pantry' = { up \in user_pantry : up.ingredient_id # id }
  /\ user_restrictions' = { ur \in user_restrictions : ur.ingredient_id # id }
  /\ UNCHANGED <<profiles, recipe_rows,
                 session, page, loading, recipes, pantryItems, restrictions, toast, ui>>

\* service role: INSERT INTO recipes
insert_recipe(id) ==
  /\ id \notin recipe_rows
  /\ recipe_rows' = recipe_rows \cup {id}
  /\ UNCHANGED <<profiles, ingredients, recipe_components, user_pantry, user_restrictions,
                 session, page, loading, recipes, pantryItems, restrictions, toast, ui>>

\* service role: DELETE FROM recipes; recipe_components.recipe_id REFERENCES
\* recipes(id) ON DELETE CASCADE
delete_recipe(id) ==
  /\ id \in recipe_rows
  /\ recipe_rows' = recipe_rows \ {id}
  /\ recipe_components' = { rc \in recipe_components : rc.recipe_id # id }
  /\ UNCHANGED <<profiles, ingredients, user_pantry, user_restrictions,
                 session, page, loading, recipes, pantryItems, restrictions, toast, ui>>

\* service role: DELETE FROM auth.users; profiles.id REFERENCES auth.users(id)
\* ON DELETE CASCADE, and user_pantry / user_restrictions reference profiles(id)
\* ON DELETE CASCADE
delete_profile(id) ==
  /\ id \in profiles
  /\ profiles' = profiles \ {id}
  /\ user_pantry' = { up \in user_pantry : up.user_id # id }
  /\ user_restrictions' = { ur \in user_restrictions : ur.user_id # id }
  /\ UNCHANGED <<recipe_rows, ingredients, recipe_components,
                 session, page, loading, recipes, pantryItems, restrictions, toast, ui>>

\* outcome of INSERT INTO recipe_components: UNIQUE(recipe_id, ingredient_id),
\* then the two foreign keys; the quantity column is NOT NULL and no more
recipe_components_insert_state(row) ==
  IF \E rc \in recipe_components :
       rc.recipe_id = row.recipe_id /\ rc.ingredient_id = row.ingredient_id
    THEN UniqueViolation
  ELSE IF row.recipe_id \notin recipe_rows \/ row.ingredient_id \notin IngredientIds
    THEN ForeignKeyViolation
  ELSE SuccessfulCompletion

\* service role: INSERT INTO recipe_components
insert_recipe_component(row) ==
  /\ IF recipe_components_insert_state(row) = SuccessfulCompletion
       THEN /\ Cardinality(recipe_components) < MaxComponents
            /\ recipe_components' = recipe_components \cup {row}
       ELSE UNCHANGED recipe_components
  /\ UNCHANGED <<profiles, recipe_rows, ingredients, user_pantry, user_restrictions,
                 session, page, loading, recipes, pantryItems, restrictions, toast, ui>>

\* service role: UPDATE recipe_components SET quantity = ... WHERE id = row.id
update_recipe_component(row, quantity) ==
  /\ row \in recipe_components
  /\ recipe_components' = (recipe_components \ {row}) \cup {[row EXCEPT !.quantity = quantity]}
  /\ UNCHANGED <<profiles, recipe_rows, ingredients, user_pantry, user_restrictions,
                 session, page, loading, recipes, pantryItems, restrictions, toast, ui>>

\* what SELECT returns to a statement of role authenticated with
\* auth.uid() = caller: the rows the table's SELECT policy admits
user_pantry_select(caller) == { up \in user_pantry : caller = up.user_id }
user_restrictions_select(caller) == { ur \in user_restrictions : caller = ur.user_id }
\* SELECT on the view: CREATE VIEW without security_invoker, so the view's
\* query reads the tables with the rights of the view's owner, whom the
\* policies do not restrict; the caller receives every row and filters at will
recipe_recommendations_select(caller) == recipe_recommendations

\* ------------------------------------------- the pages, one await at a time
\* PageSpec and DialogSpec follow the async functions of the mounted page from
\* one await to the next: a call record is a function of the page that awaits
\* a response, with what its closure captured when it was called; the awaited
\* request acts on the store in the step in which its response arrives.
\* bound on the calls of handlers awaiting a response at one time
MaxCalls == 2

\* values typed into the quantity, unit and notes inputs (the quantity input
\* is confirmed at its initial value, as in Quantities)
QuantityInputs == {"1"}
UnitInputs == {"", "g"}
NotesInputs == {"", "n"}
\* parseFloat of the quantity input; the empty input gives NaN, which JSON
\* sends as null
parseFloat(str) ==
  CASE str = "1" -> 1
    [] str = "2" -> 2
    [] OTHER -> NullNumeric

\* the call `n` of the mounted page: its function `fn` awaiting the response
\* named `await`; userId, form, item and items are the arguments and closure
\* values it holds
CallOf(n, fn, await, userId, fields, item, items) ==
  [n |-> n, fn |-> fn, await |-> await, userId |-> userId, form |-> fields,
   item |-> item, items |-> items]
\* the number the next call gets: the least one no call of S carries
NextCall(S) ==
  CHOOSE k \in 1..(Cardinality(S) + 1) :
    /\ \A c \in S : c.n # k
    /\ \A j \in 1..(k - 1) : \E c \in S : c.n = j
ItemOf(c) == CHOOSE x \in c.item : TRUE
\* the awaited responses that answer a query on a table or the view
QueryAwaits ==
  {"fetchRecommendations", "fetchPantryItems", "fetchRestrictions", "fetchIngredients",
   "user_pantry.insert", "user_pantry.delete", "user_restrictions.insert",
   "user_restrictions.delete", "recipes.select", "recipe_components.select"}
\* error.message of the error an insert returns (empty for a failed request,
\* so that the handler's fallback text is shown)
ErrorMessage(sqlstate, fallback) ==
  CASE sqlstate = UniqueViolation -> "duplicate key value violates unique constraint"
    [] sqlstate = ForeignKeyViolation -> "violates foreign key constraint"
    [] sqlstate = InsufficientPrivilege -> "new row violates row-level security policy"
    [] OTHER -> fallback

\* the recipe_components rows of the seed script
SeededComponents ==
  { [recipe_id |-> "r1", ingredient_id |-> "i1", quantity |-> 2],
    [recipe_id |-> "r1", ingredient_id |-> "i2", quantity |-> 2],
    [recipe_id |-> "r2", ingredient_id |-> "i1", quantity |-> 2] }

\* one signed-up user, the seeded catalog, the browser on the landing page
PageInit ==
  /\ profiles = {"u1"}
  /\ recipe_rows = RecipeIds
  /\ ingredients = IngredientRows
  /\ recipe_components = SeededComponents
  /\ user_pantry = {}
  /\ user_restrictions = {}
  /\ session = NULL
  /\ page = "index"
  /\ loading = FALSE
  /\ recipes = <<>>
  /\ pantryItems = {}
  /\ restrictions = {}
  /\ toast = NoToast
  /\ dialogOpen = FALSE
  /\ form = InitialForm
  /\ ingredientOptions = {}
  /\ params_id = NULL
  /\ recipe = NULL
  /\ components = {}
  /\ calls = {}

\* the router mounts the page of a URL entered in the browser, /recipe/:id included
OpenRecipeUrl(recipeId) ==
  /\ MountAt("recipe", recipeId)
  /\ UNCHANGED <<stores, session>>

\* ingredients ( name ) of an embedded select: (c.ingredients as any)?.name || ''
NameOfIngredient(i) ==
  IF \E x \in ingredients : x.id = i THEN (CHOOSE x \in ingredients : x.id = i).name ELSE ""

\* ------------------------------------------------------ Dashboard, by await
\* variant: the read is issued for a user id taken from elsewhere than the session
checkAuth_getSession_AnyUser ==
  /\ page = "dashboard" /\ loading /\ calls = {}
  /\ IF session = NULL
       THEN Mount("auth")
       ELSE /\ \E u \in Users :
                 calls' = {CallOf(1, "checkAuth", "fetchRecommendations", u, InitialForm, {}, {})}
            /\ UNCHANGED <<page, loading, recipes, pantryItems, restrictions, toast,
                           dialogOpen, form, ingredientOptions, params_id, recipe, components>>
  /\ UNCHANGED <<stores, session>>

\* the mount effect up to its second await: getSession has returned
checkAuth_getSession ==
  /\ page = "dashboard" /\ loading /\ calls = {}
  /\ IF session = NULL
       THEN Mount("auth")
       ELSE /\ calls' = {CallOf(1, "checkAuth", "fetchRecommendations", session,
                                InitialForm, {}, {})}
            /\ UNCHANGED <<page, loading, recipes, pantryItems, restrictions, toast,
                           dialogOpen, form, ingredientOptions, params_id, recipe, components>>
  /\ UNCHANGED <<stores, session>>

\* the query of fetchRecommendations returns
checkAuth_fetchRecommendations(c) ==
  /\ page = "dashboard"
  /\ c \in calls /\ c.fn = "checkAuth" /\ c.await = "fetchRecommendations"
  /\ fetchRecommendations(c.userId)
  /\ calls' = calls \ {c}
  /\ UNCHANGED <<stores, session, page, pantryItems, restrictions,
                 dialogOpen, form, ingredientOptions, params_id, recipe, components>>

\* the View Recipe button of a displayed record
Dashboard_navigateRecipe(recipeId) ==
  /\ page = "dashboard" /\ ~loading
  /\ \E k \in DOMAIN recipes : recipes[k].id = recipeId
  /\ MountAt("recipe", recipeId)
  /\ UNCHANGED <<stores, session>>

\* --------------------------------------------------------- Recipe, by await
Recipe_checkAuthAndLoad_getSession ==
  /\ page = "recipe" /\ loading /\ calls = {}
  /\ IF session = NULL
       THEN Mount("auth")
       ELSE /\ calls' = {CallOf(1, "checkAuthAndLoad", "recipes.select", NULL,
                                InitialForm, {}, {})}
            /\ UNCHANGED <<page, loading, recipes, pantryItems, restrictions, toast,
                           dialogOpen, form, ingredientOptions, params_id, recipe, components>>
  /\ UNCHANGED <<stores, session>>

\* fetchRecipe: .from('recipes').select('*').eq('id', id).single() returns;
\* single() is an error unless exactly one row matches
fetchRecipe_recipes(c) ==
  /\ page = "recipe"
  /\ c \in calls /\ c.fn = "checkAuthAndLoad" /\ c.await = "recipes.select"
  /\ \E recipeError \in BOOLEAN :
       IF recipeError \/ params_id \notin recipe_rows
         THEN /\ toast' = "Failed to load recipe"
              /\ loading' = FALSE
              /\ calls' = calls \ {c}
              /\ UNCHANGED recipe
         ELSE /\ recipe' = params_id
              /\ calls' = (calls \ {c}) \cup {[c EXCEPT !.await = "recipe_components.select"]}
              /\ UNCHANGED <<toast, loading>>
  /\ UNCHANGED <<stores, session, page, recipes, pantryItems, restrictions,
                 dialogOpen, form, ingredientOptions, params_id, components>>

\* fetchRecipe: the recipe_components query returns; finally setLoading(false)
fetchRecipe_recipe_components(c) ==
  /\ page = "recipe"
  /\ c \in calls /\ c.fn = "checkAuthAndLoad" /\ c.await = "recipe_components.select"
  /\ \E componentsError \in BOOLEAN :
       IF componentsError
         THEN /\ toast' = "Failed to load recipe"
              /\ UNCHANGED components
         ELSE /\ components' =
                   { [quantity |-> rc.quantity, ingredient_name |-> NameOfIngredient(rc.ingredient_id)] :
                       rc \in { x \in recipe_components : x.recipe_id = params_id } }
              /\ UNCHANGED toast
  /\ loading' = FALSE
  /\ calls' = calls \ {c}
  /\ UNCHANGED <<stores, session, page, recipes, pantryItems, restrictions,
                 dialogOpen, form, ingredientOptions, params_id, recipe>>

\* the Back to Dashboard button
Recipe_navigateDashboard ==
  /\ page = "recipe" /\ ~loading
  /\ Mount("dashboard")
  /\ UNCHANGED <<stores, session>>

\* --------------------------------------------------------- Pantry, by await
\* variant: no return after navigate('/auth'), so that the fetches are issued
\* without a session
Pantry_checkAuthAndLoad_getSession_NoReturn ==
  /\ page = "pantry" /\ loading /\ calls = {}
  /\ calls' = { CallOf(1, "checkAuthAndLoad", "fetchPantryItems", session, InitialForm, {}, {}),
                CallOf(2, "checkAuthAndLoad", "fetchIngredients", NULL, InitialForm, {}, {}) }
  /\ UNCHANGED <<page, loading, recipes, pantryItems, restrictions, toast,
                 dialogOpen, form, ingredientOptions, params_id, recipe, components>>
  /\ UNCHANGED <<stores, session>>

\* the mount effect: getSession has returned; with a session both fetches
\* of Promise.all are issued
Pantry_checkAuthAndLoad_getSession ==
  /\ page = "pantry" /\ loading /\ calls = {}
  /\ IF session = NULL
       THEN Mount("auth")
       ELSE /\ calls' = { CallOf(1, "checkAuthAndLoad", "fetchPantryItems", session,
                                 InitialForm, {}, {}),
                          CallOf(2, "checkAuthAndLoad", "fetchIngredients", NULL,
                                 InitialForm, {}, {}) }
            /\ UNCHANGED <<page, loading, recipes, pantryItems, restrictions, toast,
                           dialogOpen, form, ingredientOptions, params_id, recipe, components>>
  /\ UNCHANGED <<stores, session>>

\* Promise.all of checkAuthAndLoad settles with the return of c, then setLoading(false)
LoadSettles(c) ==
  c.fn = "checkAuthAndLoad" /\ ~ \E d \in calls \ {c} : d.fn = "checkAuthAndLoad"

\* fetchPantryItems(userId) returns, to checkAuthAndLoad or to addToPantry
fetchPantryItems(c) ==
  /\ page = "pantry"
  /\ c \in calls /\ c.await = "fetchPantryItems"
  /\ \E error \in BOOLEAN :
       IF error
         THEN /\ toast' = "Failed to load pantry items"
              /\ UNCHANGED pantryItems
         ELSE /\ pantryItems' = PantryRowsOf(user_pantry, c.userId)
              /\ UNCHANGED toast
  /\ loading' = IF LoadSettles(c) THEN FALSE ELSE loading
  /\ calls' = calls \ {c}
  /\ UNCHANGED <<stores, session, page, recipes, restrictions,
                 dialogOpen, form, ingredientOptions, params_id, recipe, components>>

\* variant: fetchIngredients without try / catch, so that its error rejects
\* Promise.all and setLoading(false) is not reached
Pantry_fetchIngredients_NoCatch(c) ==
  /\ page = "pantry"
  /\ c \in calls /\ c.await = "fetchIngredients"
  /\ \E error \in BOOLEAN :
       IF error
         THEN UNCHANGED <<ingredientOptions, loading>>
         ELSE /\ ingredientOptions' = ingredients
              /\ loading' = IF LoadSettles(c) THEN FALSE ELSE loading
  /\ calls' = calls \ {c}
  /\ UNCHANGED <<stores, session, page, recipes, pantryItems, restrictions, toast,
                 dialogOpen, form, params_id, recipe, components>>

\* fetchIngredients() returns (Pantry)
Pantry_fetchIngredients(c) ==
  /\ page = "pantry"
  /\ c \in calls /\ c.await = "fetchIngredients"
  /\ \E error \in BOOLEAN :
       IF error
         THEN /\ toast' = "Failed to load ingredients"
              /\ UNCHANGED ingredientOptions
         ELSE /\ ingredientOptions' = ingredients
              /\ UNCHANGED toast
  /\ loading' = IF LoadSettles(c) THEN FALSE ELSE loading
  /\ calls' = calls \ {c}
  /\ UNCHANGED <<stores, session, page, recipes, pantryItems, restrictions,
                 dialogOpen, form, params_id, recipe, components>>

\* Dialog onOpenChange (Pantry and Restrictions)
setDialogOpen(open) ==
  /\ page \in {"pantry", "restrictions"} /\ ~loading
  /\ dialogOpen # open
  /\ dialogOpen' = open
  /\ UNCHANGED <<stores, session, page, loading, recipes, pantryItems, restrictions, toast,
                 form, ingredientOptions, params_id, recipe, components, calls>>

\* Select onValueChange: one of the loaded options (Pantry and Restrictions)
setSelectedIngredient(value) ==
  /\ page \in {"pantry", "restrictions"} /\ ~loading /\ dialogOpen
  /\ value \in { o.id : o \in ingredientOptions }
  /\ form' = [form EXCEPT !.selectedIngredient = value]
  /\ UNCHANGED <<stores, session, page, loading, recipes, pantryItems, restrictions, toast,
                 dialogOpen, ingredientOptions, params_id, recipe, components, calls>>

\* the Quantity and Unit inputs of the Pantry dialog
setQuantity(value) ==
  /\ page = "pantry" /\ ~loading /\ dialogOpen
  /\ form' = [form EXCEPT !.quantity = value]
  /\ UNCHANGED <<stores, session, page, loading, recipes, pantryItems, restrictions, toast,
                 dialogOpen, ingredientOptions, params_id, recipe, components, calls>>

setUnit(value) ==
  /\ page = "pantry" /\ ~loading /\ dialogOpen
  /\ form' = [form EXCEPT !.unit = value]
  /\ UNCHANGED <<stores, session, page, loading, recipes, pantryItems, restrictions, toast,
                 dialogOpen, ingredientOptions, params_id, recipe, components, calls>>

\* variant: the handler has no validation of the selection
addToPantry_call_NoValidation ==
  /\ page = "pantry" /\ ~loading /\ dialogOpen
  /\ Cardinality(calls) < MaxCalls
  /\ calls' = calls \cup {CallOf(NextCall(calls), "addToPantry", "auth.getUser", NULL, form, {}, {})}
  /\ UNCHANGED <<stores, session, page, loading, recipes, pantryItems, restrictions, toast,
                 dialogOpen, form, ingredientOptions, params_id, recipe, components>>

\* the Add to Pantry button, up to the first await: the validation, then
\* auth.getUser() is called
addToPantry_call ==
  /\ page = "pantry" /\ ~loading /\ dialogOpen
  /\ IF form.selectedIngredient = ""
       THEN /\ toast' = "Please select an ingredient"
            /\ UNCHANGED calls
       ELSE /\ Cardinality(calls) < MaxCalls
            /\ calls' = calls \cup {CallOf(NextCall(calls), "addToPantry", "auth.getUser", NULL, form, {}, {})}
            /\ UNCHANGED toast
  /\ UNCHANGED <<stores, session, page, loading, recipes, pantryItems, restrictions,
                 dialogOpen, form, ingredientOptions, params_id, recipe, components>>

\* auth.getUser() returns: no user (no session, or the request failed) throws
\* 'Not authenticated' into the catch; with a user the insert is sent
addToPantry_getUser(c) ==
  /\ page = "pantry"
  /\ c \in calls /\ c.fn = "addToPantry" /\ c.await = "auth.getUser"
  /\ \E requestError \in BOOLEAN :
     IF session = NULL \/ requestError
       THEN /\ toast' = "Not authenticated"
            /\ calls' = calls \ {c}
       ELSE /\ calls' = (calls \ {c}) \cup
                          {[c EXCEPT !.await = "user_pantry.insert", !.userId = session]}
            /\ UNCHANGED toast
  /\ UNCHANGED <<stores, session, page, loading, recipes, pantryItems, restrictions,
                 dialogOpen, form, ingredientOptions, params_id, recipe, components>>

\* variant: the catch block also closes the dialog
addToPantry_insert_ClosesOnError(c) ==
  /\ page = "pantry"
  /\ c \in calls /\ c.fn = "addToPantry" /\ c.await = "user_pantry.insert"
  /\ LET row == [user_id |-> c.userId, ingredient_id |-> c.form.selectedIngredient,
                 quantity |-> parseFloat(c.form.quantity)]
         sqlstate == user_pantry_insert_state(session, row)
     IN \E requestError \in BOOLEAN :
          IF requestError \/ sqlstate # SuccessfulCompletion
            THEN /\ toast' = ErrorMessage(IF requestError THEN "" ELSE sqlstate,
                                          "Failed to add ingredient")
                 /\ dialogOpen' = FALSE
                 /\ calls' = calls \ {c}
                 /\ UNCHANGED <<user_pantry, form>>
            ELSE /\ Cardinality(user_pantry) < MaxPantryRows
                 /\ user_pantry' = user_pantry \cup {row}
                 /\ toast' = "Ingredient added to pantry"
                 /\ dialogOpen' = FALSE
                 /\ form' = [form EXCEPT !.selectedIngredient = "", !.quantity = "1",
                                         !.unit = ""]
                 /\ calls' = (calls \ {c}) \cup
                       {CallOf(c.n, "addToPantry", "fetchPantryItems", c.userId, InitialForm, {}, {})}
  /\ UNCHANGED <<catalog, profiles, recipe_components, user_restrictions, session, page,
                 loading, recipes, pantryItems, restrictions, ingredientOptions,
                 params_id, recipe, components>>

\* variant: a successful insert is not followed by the refetch
addToPantry_insert_NoRefetch(c) ==
  /\ page = "pantry"
  /\ c \in calls /\ c.fn = "addToPantry" /\ c.await = "user_pantry.insert"
  /\ LET row == [user_id |-> c.userId, ingredient_id |-> c.form.selectedIngredient,
                 quantity |-> parseFloat(c.form.quantity)]
         sqlstate == user_pantry_insert_state(session, row)
     IN \E requestError \in BOOLEAN :
          IF requestError \/ sqlstate # SuccessfulCompletion
            THEN /\ toast' = ErrorMessage(IF requestError THEN "" ELSE sqlstate,
                                          "Failed to add ingredient")
                 /\ calls' = calls \ {c}
                 /\ UNCHANGED <<user_pantry, dialogOpen, form>>
            ELSE /\ Cardinality(user_pantry) < MaxPantryRows
                 /\ user_pantry' = user_pantry \cup {row}
                 /\ toast' = "Ingredient added to pantry"
                 /\ dialogOpen' = FALSE
                 /\ form' = [form EXCEPT !.selectedIngredient = "", !.quantity = "1",
                                         !.unit = ""]
                 /\ calls' = calls \ {c}
  /\ UNCHANGED <<catalog, profiles, recipe_components, user_restrictions, session, page,
                 loading, recipes, pantryItems, restrictions, ingredientOptions,
                 params_id, recipe, components>>

\* the insert returns. The row carries user_id = user.id and the statement
\* runs as the session's user (auth.uid()); an error is thrown into the catch,
\* which toasts its message. On success: toast, close the dialog, reset the
\* fields, then fetchPantryItems(user.id) is awaited
addToPantry_insert(c) ==
  /\ page = "pantry"
  /\ c \in calls /\ c.fn = "addToPantry" /\ c.await = "user_pantry.insert"
  /\ LET row == [user_id |-> c.userId, ingredient_id |-> c.form.selectedIngredient,
                 quantity |-> parseFloat(c.form.quantity)]
         sqlstate == user_pantry_insert_state(session, row)
     IN \E requestError \in BOOLEAN :
          IF requestError \/ sqlstate # SuccessfulCompletion
            THEN /\ toast' = ErrorMessage(IF requestError THEN "" ELSE sqlstate,
                                          "Failed to add ingredient")
                 /\ calls' = calls \ {c}
                 /\ UNCHANGED <<user_pantry, dialogOpen, form>>
            ELSE /\ Cardinality(user_pantry) < MaxPantryRows
                 /\ user_pantry' = user_pantry \cup {row}
                 /\ toast' = "Ingredient added to pantry"
                 /\ dialogOpen' = FALSE
                 /\ form' = [form EXCEPT !.selectedIngredient = "", !.quantity = "1",
                                         !.unit = ""]
                 /\ calls' = (calls \ {c}) \cup
                       {CallOf(c.n, "addToPantry", "fetchPantryItems", c.userId, InitialForm, {}, {})}
  /\ UNCHANGED <<catalog, profiles, recipe_components, user_restrictions, session, page,
                 loading, recipes, pantryItems, restrictions, ingredientOptions,
                 params_id, recipe, components>>

\* the trash button of a displayed item, up to the await: the delete is sent;
\* the handler is the one of the current render and holds its pantryItems
removeFromPantry_call(itemId) ==
  /\ page = "pantry" /\ ~loading
  /\ itemId \in pantryItems
  /\ Cardinality(calls) < MaxCalls
  /\ calls' = calls \cup
       {CallOf(NextCall(calls), "removeFromPantry", "user_pantry.delete", NULL, InitialForm, {itemId},
               pantryItems)}
  /\ UNCHANGED <<stores, session, page, loading, recipes, pantryItems, restrictions, toast,
                 dialogOpen, form, ingredientOptions, params_id, recipe, components>>

\* the delete returns: delete().eq('id', itemId) under the policy "Users can
\* delete own pantry items"; on success
\* setPantryItems(pantryItems.filter(item => item.id !== itemId)) with the
\* pantryItems the handler holds
removeFromPantry_delete(c) ==
  /\ page = "pantry"
  /\ c \in calls /\ c.fn = "removeFromPantry" /\ c.await = "user_pantry.delete"
  /\ \E error \in BOOLEAN :
       IF error
         THEN /\ toast' = "Failed to remove ingredient"
              /\ UNCHANGED <<user_pantry, pantryItems>>
         ELSE /\ user_pantry' =
                   { up \in user_pantry : ~(up = ItemOf(c) /\ up.user_id = session) }
              /\ toast' = "Ingredient removed from pantry"
              /\ pantryItems' = { item \in c.items : item # ItemOf(c) }
  /\ calls' = calls \ {c}
  /\ UNCHANGED <<catalog, profiles, recipe_components, user_restrictions, session, page,
                 loading, recipes, restrictions, dialogOpen, form, ingredientOptions,
                 params_id, recipe, components>>

\* --------------------------------------------------- Restrictions, by await
Restrictions_checkAuthAndLoad_getSession ==
  /\ page = "restrictions" /\ loading /\ calls = {}
  /\ IF session = NULL
       THEN Mount("auth")
       ELSE /\ calls' = { CallOf(1, "checkAuthAndLoad", "fetchRestrictions", session,
                                 InitialForm, {}, {}),
                          CallOf(2, "checkAuthAndLoad", "fetchIngredients", NULL,
                                 InitialForm, {}, {}) }
            /\ UNCHANGED <<page, loading, recipes, pantryItems, restrictions, toast,
                           dialogOpen, form, ingredientOptions, params_id, recipe, components>>
  /\ UNCHANGED <<stores, session>>

\* fetchRestrictions(userId) returns, to checkAuthAndLoad or to addRestriction
fetchRestrictions(c) ==
  /\ page = "restrictions"
  /\ c \in calls /\ c.await = "fetchRestrictions"
  /\ \E error \in BOOLEAN :
       IF error
         THEN /\ toast' = "Failed to load restrictions"
              /\ UNCHANGED restrictions
         ELSE /\ restrictions' = RestrictionRowsOf(user_restrictions, c.userId)
              /\ UNCHANGED toast
  /\ loading' = IF LoadSettles(c) THEN FALSE ELSE loading
  /\ calls' = calls \ {c}
  /\ UNCHANGED <<stores, session, page, recipes, pantryItems,
                 dialogOpen, form, ingredientOptions, params_id, recipe, components>>

\* fetchIngredients() returns (Restrictions)
Restrictions_fetchIngredients(c) ==
  /\ page = "restrictions"
  /\ c \in calls /\ c.await = "fetchIngredients"
  /\ \E error \in BOOLEAN :
       IF error
         THEN /\ toast' = "Failed to load ingredients"
              /\ UNCHANGED ingredientOptions
         ELSE /\ ingredientOptions' = ingredients
              /\ UNCHANGED toast
  /\ loading' = IF LoadSettles(c) THEN FALSE ELSE loading
  /\ calls' = calls \ {c}
  /\ UNCHANGED <<stores, session, page, recipes, pantryItems, restrictions,
                 dialogOpen, form, params_id, recipe, components>>

\* the Type select and the Notes input of the Restrictions dialog
setRestrictionType(value) ==
  /\ page = "restrictions" /\ ~loading /\ dialogOpen
  /\ form' = [form EXCEPT !.restrictionType = value]
  /\ UNCHANGED <<stores, session, page, loading, recipes, pantryItems, restrictions, toast,
                 dialogOpen, ingredientOptions, params_id, recipe, components, calls>>

setNotes(value) ==
  /\ page = "restrictions" /\ ~loading /\ dialogOpen
  /\ form' = [form EXCEPT !.notes = value]
  /\ UNCHANGED <<stores, session, page, loading, recipes, pantryItems, restrictions, toast,
                 dialogOpen, ingredientOptions, params_id, recipe, components, calls>>

\* the Add Restriction button, up to the first await
addRestriction_call ==
  /\ page = "restrictions" /\ ~loading /\ dialogOpen
  /\ IF form.selectedIngredient = ""
       THEN /\ toast' = "Please select an ingredient"
            /\ UNCHANGED calls
       ELSE /\ Cardinality(calls) < MaxCalls
            /\ calls' = calls \cup {CallOf(NextCall(calls), "addRestriction", "auth.getUser", NULL, form, {}, {})}
            /\ UNCHANGED toast
  /\ UNCHANGED <<stores, session, page, loading, recipes, pantryItems, restrictions,
                 dialogOpen, form, ingredientOptions, params_id, recipe, components>>

\* auth.getUser() returns
addRestriction_getUser(c) ==
  /\ page = "restrictions"
  /\ c \in calls /\ c.fn = "addRestriction" /\ c.await = "auth.getUser"
  /\ \E requestError \in BOOLEAN :
     IF session = NULL \/ requestError
       THEN /\ toast' = "Not authenticated"
            /\ calls' = calls \ {c}
       ELSE /\ calls' = (calls \ {c}) \cup
                          {[c EXCEPT !.await = "user_restrictions.insert", !.userId = session]}
            /\ UNCHANGED toast
  /\ UNCHANGED <<stores, session, page, loading, recipes, pantryItems, restrictions,
                 dialogOpen, form, ingredientOptions, params_id, recipe, components>>

\* the insert returns; on success: toast, close the dialog, reset the fields,
\* then fetchRestrictions(user.id) is awaited
addRestriction_insert(c) ==
  /\ page = "restrictions"
  /\ c \in calls /\ c.fn = "addRestriction" /\ c.await = "user_restrictions.insert"
  /\ LET row == [user_id |-> c.userId, ingredient_id |-> c.form.selectedIngredient,
                 restriction_type |-> c.form.restrictionType]
         sqlstate == user_restrictions_insert_state(session, row)
     IN \E requestError \in BOOLEAN :
          IF requestError \/ sqlstate # SuccessfulCompletion
            THEN /\ toast' = ErrorMessage(IF requestError THEN "" ELSE sqlstate,
                                          "Failed to add restriction")
                 /\ calls' = calls \ {c}
                 /\ UNCHANGED <<user_restrictions, dialogOpen, form>>
            ELSE /\ Cardinality(user_restrictions) < MaxRestrictionRows
                 /\ user_restrictions' = user_restrictions \cup {row}
                 /\ toast' = "Restriction added successfully"
                 /\ dialogOpen' = FALSE
                 /\ form' = [form EXCEPT !.selectedIngredient = "",
                                         !.restrictionType = "allergy", !.notes = ""]
                 /\ calls' = (calls \ {c}) \cup
                       {CallOf(c.n, "addRestriction", "fetchRestrictions", c.userId, InitialForm, {}, {})}
  /\ UNCHANGED <<catalog, profiles, recipe_components, user_pantry, session, page,
                 loading, recipes, pantryItems, restrictions, ingredientOptions,
                 params_id, recipe, components>>

\* the trash button of a displayed restriction, up to the await
removeRestriction_call(restrictionId) ==
  /\ page = "restrictions" /\ ~loading
  /\ restrictionId \in restrictions
  /\ Cardinality(calls) < MaxCalls
  /\ calls' = calls \cup
       {CallOf(NextCall(calls), "removeRestriction", "user_restrictions.delete", NULL, InitialForm,
               {restrictionId}, restrictions)}
  /\ UNCHANGED <<stores, session, page, loading, recipes, pantryItems, restrictions, toast,
                 dialogOpen, form, ingredientOptions, params_id, recipe, components>>

\* the delete returns; on success
\* setRestrictions(restrictions.filter(r => r.id !== restrictionId)) with the
\* restrictions the handler holds
removeRestriction_delete(c) ==
  /\ page = "restrictions"
  /\ c \in calls /\ c.fn = "removeRestriction" /\ c.await = "user_restrictions.delete"
  /\ \E error \in BOOLEAN :
       IF error
         THEN /\ toast' = "Failed to remove restriction"
              /\ UNCHANGED <<user_restrictions, restrictions>>
         ELSE /\ user_restrictions' =
                   { ur \in user_restrictions : ~(ur = ItemOf(c) /\ ur.user_id = session) }
              /\ toast' = "Restriction removed"
              /\ restrictions' = { r \in c.items : r # ItemOf(c) }
  /\ calls' = calls \ {c}
  /\ UNCHANGED <<catalog, profiles, recipe_components, user_pantry, session, page,
                 loading, recipes, pantryItems, dialogOpen, form, ingredientOptions,
                 params_id, recipe, components>>

\* ------------------------------------------------------------- specification
Next ==
  \/ \E u \in Users : handle_new_user(u)
  \/ \E u \in Users : SignIn(u)
  \/ \E p \in Pages : OpenUrl(p)
  \/ Index_navigateAuth
  \/ \E p \in Pages : Dashboard_navigate(p)
  \/ Pantry_navigateDashboard
  \/ Restrictions_navigateDashboard
  \/ handleSignOut
  \/ onAuthStateChange
  \/ checkAuth
  \/ Pantry_checkAuthAndLoad
  \/ \E i \in IngredientIds \cup {""}, q \in Quantities : addToPantry(i, q)
  \/ \E item \in pantryItems : removeFromPantry(item)
  \/ Restrictions_checkAuthAndLoad
  \/ \E i \in IngredientIds \cup {""}, t \in RestrictionTypes : addRestriction(i, t)
  \/ \E r \in restrictions : removeRestriction(r)

Spec == Init /\ [][Next]_vars

\* the store under direct statements: sign-ups, the statements of
\* authenticated users on their tables and the service role's on the catalog
StoreNext ==
  \/ \E u \in Users : handle_new_user(u)
  \/ \E u \in Users : delete_profile(u)
  \/ \E row \in IngredientRows : insert_ingredient(row)
  \/ \E row \in IngredientRows : delete_ingredient(row.id)
  \/ \E id \in RecipeIds : insert_recipe(id)
  \/ \E id \in RecipeIds : delete_recipe(id)
  \/ \E row \in ComponentRowValues : insert_recipe_component(row)
  \/ \E row \in ComponentRowValues, q \in RequirementQuantityValues :
       update_recipe_component(row, q)
  \/ \E caller \in Users, row \in PantryRowValues : insert_user_pantry(caller, row)
  \/ \E caller \in Users, row \in PantryRowValues, q \in PantryQuantityValues :
       update_user_pantry(caller, row, q)
  \/ \E caller \in Users, row \in PantryRowValues : delete_user_pantry(caller, row)
  \/ \E caller \in Users, row \in RestrictionRowValues : insert_user_restrictions(caller, row)
  \/ \E caller \in Users, row \in RestrictionRowValues : delete_user_restrictions(caller, row)

StoreSpec == Init /\ [][StoreNext]_vars

\* the application with the mount effects of its pages taken one await at a
\* time: one signed-up user, one browser, the seeded catalog; a URL is entered
\* when no call of the mounted page awaits a response
PageNext ==
  \/ \E u \in Users : SignIn(u)
  \/ \E p \in Pages : calls = {} /\ OpenUrl(p)
  \/ \E r \in RecipeIds : calls = {} /\ OpenRecipeUrl(r)
  \/ Index_navigateAuth
  \/ \E p \in Pages : Dashboard_navigate(p)
  \/ \E r \in RecipeIds : Dashboard_navigateRecipe(r)
  \/ Pantry_navigateDashboard
  \/ Restrictions_navigateDashboard
  \/ Recipe_navigateDashboard
  \/ handleSignOut
  \/ onAuthStateChange
  \/ checkAuth_getSession
  \/ \E c \in calls : checkAuth_fetchRecommendations(c)
  \/ Recipe_checkAuthAndLoad_getSession
  \/ \E c \in calls : fetchRecipe_recipes(c)
  \/ \E c \in calls : fetchRecipe_recipe_components(c)
  \/ Pantry_checkAuthAndLoad_getSession
  \/ \E c \in calls : fetchPantryItems(c)
  \/ \E c \in calls : Pantry_fetchIngredients(c)
  \/ \E i \in IngredientIds \cup {""}, q \in Quantities : addToPantry(i, q)
  \/ \E item \in pantryItems : removeFromPantry(item)
  \/ Restrictions_checkAuthAndLoad_getSession
  \/ \E c \in calls : fetchRestrictions(c)
  \/ \E c \in calls : Restrictions_fetchIngredients(c)
  \/ \E i \in IngredientIds \cup {""}, t \in RestrictionTypes : addRestriction(i, t)
  \/ \E r \in restrictions : removeRestriction(r)

PageSpec == PageInit /\ [][PageNext]_vars

\* the Pantry or the Restrictions page, mounted for the signed-in user, with
\* its dialog, its fields and its handlers taken one await at a time
DialogInit ==
  /\ profiles = {"u1"}
  /\ recipe_rows = RecipeIds
  /\ ingredients = IngredientRows
  /\ recipe_components = SeededComponents
  /\ user_pantry = {}
  /\ user_restrictions = {}
  /\ session = "u1"
  /\ page \in {"pantry", "restrictions"}
  /\ loading = TRUE
  /\ recipes = <<>>
  /\ pantryItems = {}
  /\ restrictions = {}
  /\ toast = NoToast
  /\ dialogOpen = FALSE
  /\ form = InitialForm
  /\ ingredientOptions = {}
  /\ params_id = NULL
  /\ recipe = NULL
  /\ components = {}
  /\ calls = {}

\* the page is reloaded when none of its calls awaits a response
DialogNext ==
  \/ calls = {} /\ OpenUrl(page)
  \/ onAuthStateChange
  \/ Pantry_checkAuthAndLoad_getSession
  \/ \E c \in calls : fetchPantryItems(c)
  \/ \E c \in calls : Pantry_fetchIngredients(c)
  \/ \E open \in BOOLEAN : setDialogOpen(open)
  \/ \E i \in IngredientIds : setSelectedIngredient(i)
  \/ \E q \in QuantityInputs : setQuantity(q)
  \/ \E u \in UnitInputs : setUnit(u)
  \/ addToPantry_call
  \/ \E c \in calls : addToPantry_getUser(c)
  \/ \E c \in calls : addToPantry_insert(c)
  \/ \E item \in pantryItems : removeFromPantry_call(item)
  \/ \E c \in calls : removeFromPantry_delete(c)
  \/ Restrictions_checkAuthAndLoad_getSession
  \/ \E c \in calls : fetchRestrictions(c)
  \/ \E c \in calls : Restrictions_fetchIngredients(c)
  \/ \E t \in RestrictionTypes : setRestrictionType(t)
  \/ \E n \in NotesInputs : setNotes(n)
  \/ addRestriction_call
  \/ \E c \in calls : addRestriction_getUser(c)
  \/ \E c \in calls : addRestriction_insert(c)
  \/ \E r \in restrictions : removeRestriction_call(r)
  \/ \E c \in calls : removeRestriction_delete(c)

DialogSpec == DialogInit /\ [][DialogNext]_vars

\* ---------------------------------------------------- vocabulary of the claims
\* R's requirement set, U's pantry and U's restriction set, as ingredient ids
Req(R) == { rc.ingredient_id : rc \in { c \in recipe_components : c.recipe_id = R } }
Pantry(U) == { up.ingredient_id : up \in { x \in user_pantry : x.user_id = U } }
Restricted(U) == { ur.ingredient_id : ur \in { x \in user_restrictions : x.user_id = U } }
NameOf(i) == (CHOOSE x \in ingredients : x.id = i).name
\* the records of the view for user U, and those among them for recipe R
ListOf(U) == { row \in recipe_recommendations : row.user_id = U }
RecordsOf(U, R) == { row \in ListOf(U) : row.id = R }
\* the same, taken from an already computed set of view rows
ListIn(view, U) == { row \in view : row.user_id = U }
RecordsIn(view, U, R) == { row \in view : row.user_id = U /\ row.id = R }
\* the names a record lists as missing (a NULL array lists none)
MissingNames(row) ==
  IF row.missing_ingredients.null THEN {}
  ELSE { row.missing_ingredients.array[k] : k \in DOMAIN row.missing_ingredients.array }
Eligible(U, R) == Req(R) # {} /\ Req(R) \cap Restricted(U) = {}
\* the Dashboard shows the result of a successful fetch for U
Fetched(U) ==
  /\ page = "dashboard" /\ ~loading /\ session = U
  /\ toast # "Failed to load recommendations"
RecipesShown == { recipes[k] : k \in DOMAIN recipes }

\* --------------------------------------------------------------------- claims
\* C1: if any ingredient of R's requirement set is in U's restriction set, the
\* view holds no record for (U, R), whatever U's pantry contains.
C1_RestrictedRecipeAbsent ==
  \A U \in Users, R \in recipe_rows :
    Req(R) \cap Restricted(U) # {} => RecordsOf(U, R) = {}

\* C2: every record for (U, R) reports total_ingredients = the number of
\* distinct ingredients of R's full requirement set.
C2_TotalIsFullRequirementCount ==
  \A U \in Users, R \in recipe_rows : \A row \in RecordsOf(U, R) :
    row.total_ingredients = Cardinality(Req(R))

\* C3: every record for (U, R) has 0 <= v_score <= 100 and
\* v_score = round(owned / total * 100, 2) with owned = |Req(R) \cap Pantry(U)|
\* and total = |Req(R)|.
C3_VScoreIsOwnedOverTotal ==
  \A U \in Users, R \in recipe_rows : \A row \in RecordsOf(U, R) :
    /\ 0 <= row.v_score /\ row.v_score <= 10000
    /\ row.v_score = RoundPct(Cardinality(Req(R) \cap Pantry(U)), Cardinality(Req(R)))

\* C4: every record for (U, R) lists as missing exactly the names of the
\* ingredients of Req(R) that are not in U's pantry, without duplicates.
C4_MissingIsRequirementMinusPantry ==
  \A U \in Users, R \in recipe_rows : \A row \in RecordsOf(U, R) :
    /\ MissingNames(row) = { NameOf(i) : i \in Req(R) \ Pantry(U) }
    /\ \A a, b \in DOMAIN row.missing_ingredients.array :
         a # b => row.missing_ingredients.array[a] # row.missing_ingredients.array[b]

\* C5: for a user with a profile, an empty pantry and no restrictions, the
\* fetched list holds every recipe with at least one requirement, with
\* v_score 0.00, owned_ingredients 0 and the full requirement list as missing.
C5_EmptyPantryListsEveryRecipe ==
  \A U \in profiles :
    (Fetched(U) /\ Pantry(U) = {} /\ Restricted(U) = {}) =>
      \A R \in recipe_rows : Req(R) # {} =>
        \E row \in RecipesShown :
          /\ row.id = R
          /\ row.v_score = 0
          /\ row.owned_ingredients = 0
          /\ MissingNames(row) = { NameOf(i) : i \in Req(R) }

\* C6: for a user with a profile the view holds exactly one record for each
\* eligible recipe and none for any other recipe.
C6_OneRecordPerEligibleRecipe ==
  \A U \in profiles, R \in recipe_rows :
    Cardinality(RecordsOf(U, R)) = IF Eligible(U, R) THEN 1 ELSE 0

\* C7: every record for (U, R) reports owned_ingredients = the number of
\* distinct ingredients of Req(R) that have a row in U's pantry.
C7_OwnedIsRequirementInPantry ==
  \A U \in Users, R \in recipe_rows : \A row \in RecordsOf(U, R) :
    row.owned_ingredients = Cardinality(Req(R) \cap Pantry(U))

\* C8: a recipe with no recipe_components row has no record in any user's
\* list, so no record has total_ingredients = 0 or a NULL v_score.
C8_NoRecordWithoutRequirements ==
  /\ LET view == recipe_recommendations
     IN \A U \in Users :
          /\ \A R \in recipe_rows : Req(R) = {} => RecordsIn(view, U, R) = {}
          /\ \A row \in ListIn(view, U) :
               row.total_ingredients >= 1 /\ row.v_score # NullNumeric
  /\ \A row \in RecipesShown :
       Req(row.id) # {} /\ row.total_ingredients >= 1 /\ row.v_score # NullNumeric
\* the Dashboard shows a fetched, non-empty list while some recipe has no requirement
C8_Witness ==
  /\ \E U \in Users : Fetched(U)
  /\ recipes # <<>>
  /\ \E R \in recipe_rows : Req(R) = {}

\* a step that inserts into U's pantry a row for ingredient i and changes no
\* other store
PantryInsert(U, i) ==
  /\ i \notin Pantry(U)
  /\ \E q \in Quantities :
       user_pantry' = user_pantry \cup {[user_id |-> U, ingredient_id |-> i, quantity |-> q]}
  /\ UNCHANGED <<profiles, recipe_components, user_restrictions>>

\* C9: inserting into U's pantry an ingredient that R requires never removes
\* R from U's list and never decreases R's v_score.
C9_PantryInsertMonotone ==
  [][ user_pantry' # user_pantry =>
        LET old_view == recipe_recommendations
            new_view == recipe_recommendations'
        IN \A U \in Users, R \in recipe_rows, i \in IngredientIds :
             (i \in Req(R) /\ PantryInsert(U, i)) =>
               \A old \in RecordsIn(old_view, U, R) :
                 /\ RecordsIn(new_view, U, R) # {}
                 /\ \A new \in RecordsIn(new_view, U, R) : new.v_score >= old.v_score ]_vars
\* addToPantry has just added a required ingredient of a recipe that was
\* already in the user's list (the user owns another, unrestricted one)
C9_Witness ==
  /\ page = "pantry" /\ toast = "Ingredient added to pantry"
  /\ \E R \in recipe_rows :
       /\ Cardinality(Req(R) \cap Pantry(session)) >= 2
       /\ Req(R) \cap Restricted(session) = {}
       /\ RecordsOf(session, R) # {}

PantryRowsOwnedBy(U) == { up \in user_pantry : up.user_id = U }
RestrictionRowsOwnedBy(U) == { ur \in user_restrictions : ur.user_id = U }
\* the rows of the view for U were the stores to hold no pantry row and no
\* restriction of any other user
ListWithoutOthers(U) ==
  LET rows == JoinRowsOver(PantryRowsOwnedBy(U), RestrictionRowsOwnedBy(U))
  IN ListIn(Having(GroupedRowsOf(rows)), U)

\* C11: U's list depends on no pantry row and no restriction of another user:
\* whatever rows the other users have inserted and deleted, every record of
\* U's list is the one the view yields without those rows.
C11_ListUnchangedByOtherUsers ==
  LET view == recipe_recommendations
  IN \A U \in Users : ListIn(view, U) = ListWithoutOthers(U)
\* U's list holds a record of a recipe while another user owns and another
\* restricts an ingredient that recipe requires
C11_Witness ==
  \E U \in Users, R \in recipe_rows :
    /\ RecordsOf(U, R) # {}
    /\ \E V \in Users \ {U} : Req(R) \cap Pantry(V) # {}
    /\ \E V \in Users \ {U} : Req(R) \cap Restricted(V) # {}

\* a step that changes pantry rows or restrictions, none of them U's, and
\* changes no other table
WriteByOthers(U) ==
  /\ (user_pantry' # user_pantry \/ user_restrictions' # user_restrictions)
  /\ PantryRowsOwnedBy(U)' = PantryRowsOwnedBy(U)
  /\ RestrictionRowsOwnedBy(U)' = RestrictionRowsOwnedBy(U)
  /\ UNCHANGED <<profiles, recipe_rows, ingredients, recipe_components>>
\* everything the SELECT statements of user U return
ReadableBy(U) ==
  <<user_pantry_select(U), user_restrictions_select(U), recipe_recommendations_select(U)>>

\* C12: no statement of a user inserts, updates or deletes a pantry row or a
\* restriction of another user, and nothing a user can read (its own rows,
\* and the view under any filter) changes with the rows of other users.
C12_NoAccessToOtherUsersRows ==
  [][ /\ \A caller \in Users :
           (\/ \E row \in PantryRowValues : insert_user_pantry(caller, row)
            \/ \E row \in PantryRowValues, q \in PantryQuantityValues :
                 update_user_pantry(caller, row, q)
            \/ \E row \in PantryRowValues : delete_user_pantry(caller, row)
            \/ \E row \in RestrictionRowValues : insert_user_restrictions(caller, row)
            \/ \E row \in RestrictionRowValues : delete_user_restrictions(caller, row))
           => \A V \in Users \ {caller} :
                /\ PantryRowsOwnedBy(V)' = PantryRowsOwnedBy(V)
                /\ RestrictionRowsOwnedBy(V)' = RestrictionRowsOwnedBy(V)
      /\ \A U \in Users : WriteByOthers(U) => ReadableBy(U)' = ReadableBy(U) ]_vars

\* C13: the list a Dashboard read for U has set is computed from the pantry
\* rows and restrictions stored now, after every insert and delete committed
\* before the read: it is one of the arrays the query yields on the current
\* tables.
C13_ReadSeesCommittedWrites ==
  \A U \in Users : Fetched(U) => recipes \in RecommendationQuery(U)
\* the Dashboard shows a list fetched after the user added two pantry rows and
\* a restriction
C13_Witness ==
  /\ \E U \in Users :
       /\ Fetched(U)
       /\ Cardinality(Pantry(U)) >= 2
       /\ Restricted(U) # {}
  /\ recipes # <<>>

\* C14 as claimed: a second read for the same user with no change in between
\* returns the sequence the first read returned (same records, same order).
C14_RepeatedReadIdentical ==
  \A U \in Users : Fetched(U) => \A again \in RecommendationQuery(U) : again = recipes
\* C14 as amended: a second read with no change in between returns the same
\* records with the same field values and the same v_score at every position;
\* records of equal v_score may come in another relative order.
C14_RepeatedReadSameRecords ==
  \A U \in Users : Fetched(U) =>
    \A again \in RecommendationQuery(U) :
      /\ Len(again) = Len(recipes)
      /\ { again[k] : k \in DOMAIN again } = RecipesShown
      /\ \A k \in DOMAIN again : again[k].v_score = recipes[k].v_score
\* the Dashboard shows a fetched list that a second read can return in
\* another order
C14_Witness ==
  \E U \in Users :
    /\ Fetched(U)
    /\ \E again \in RecommendationQuery(U) : again # recipes

\* C15: the step in which the Dashboard reads the recommendations (loading
\* ends on the mounted Dashboard of a signed-in user) leaves recipes,
\* recipe_components, ingredients, user_pantry and user_restrictions unchanged.
C15_ReadChangesNoTable ==
  [][ (/\ page = "dashboard" /\ loading /\ session # NULL
       /\ page' = "dashboard" /\ ~loading')
      => UNCHANGED <<recipe_rows, recipe_components, ingredients,
                     user_pantry, user_restrictions>> ]_vars
\* the Dashboard has read the list of a user who has a pantry row for an
\* ingredient the user also restricts
C15_Witness ==
  \E U \in Users :
    /\ Fetched(U)
    /\ Pantry(U) \cap Restricted(U) # {}

\* C16: a read for a user id that has no profile, no pantry row and no
\* restriction returns the empty list: the query yields the empty array and
\* nothing else.
C16_UnknownUserEmptyList ==
  \A U \in Users \ profiles :
    (PantryRowsOwnedBy(U) = {} /\ RestrictionRowsOwnedBy(U) = {}) =>
      RecommendationQuery(U) = {<<>>}
\* a user id has no profile while the view holds rows of another user and
\* rows with user_id NULL
C16_Witness ==
  /\ Users \ profiles # {}
  /\ \E row \in recipe_recommendations : row.user_id \in profiles
  /\ \E row \in recipe_recommendations : row.user_id = NULL

C18_ReferentialIntegrity ==
  /\ \A rc \in recipe_components :
       rc.recipe_id \in recipe_rows /\ rc.ingredient_id \in IngredientIds
  /\ \A up \in user_pantry :
       up.user_id \in profiles /\ up.ingredient_id \in IngredientIds
  /\ \A ur \in user_restrictions :
       ur.user_id \in profiles /\ ur.ingredient_id \in IngredientIds
\* an ingredient and a recipe have been deleted while the three referencing
\* tables still hold rows
C18_Witness ==
  /\ Cardinality(ingredients) = 1
  /\ Cardinality(recipe_rows) = 1
  /\ recipe_components # {}
  /\ user_pantry # {}
  /\ user_restrictions # {}

\* C19: the step in which the recommendation query fails toasts the one error
\* message, leaves the recipe list as it was and ends loading; and while the
\* Dashboard stays mounted after it, no step changes the list or toasts again
\* (no retry, no second error).
C19_FailedReadSurfacedOnce ==
  [][ /\ (/\ page = "dashboard" /\ loading
          /\ page' = "dashboard" /\ toast' = "Failed to load recommendations")
         => (recipes' = recipes /\ ~loading')
      /\ (/\ page = "dashboard" /\ ~loading /\ toast = "Failed to load recommendations"
          /\ page' = "dashboard" /\ ~loading')
         => (recipes' = recipes /\ toast' = toast) ]_vars
\* the Dashboard shows the error of a failed read while the query would have
\* returned records
C19_Witness ==
  /\ page = "dashboard" /\ ~loading /\ session # NULL
  /\ toast = "Failed to load recommendations"
  /\ recipes = <<>>
  /\ RecommendationQuery(session) # {<<>>}

\* C20: every stored requirement (recipe_components row) has quantity > 0,
\* inserts and updates with a quantity of 0 or below being rejected.
C20_RequirementQuantityPositive ==
  \A rc \in recipe_components : rc.quantity > 0

\* the records a read for U returns, in any of the orders the query admits
FetchedRecords(U) == UNION { { s[k] : k \in DOMAIN s } : s \in RecommendationQuery(U) }
\* the ingredients R requires that U owns and does not restrict
OwnedUnrestricted(U, R) == (Req(R) \cap Pantry(U)) \ Restricted(U)

LoadCalls(S) == { c \in S : c.fn \in {"checkAuth", "checkAuthAndLoad"} }
QueryCalls(S) == { c \in S : c.await \in QueryAwaits }
\* a protected page is mounted and its mount effect has not passed getSession
PreGate == page \in ProtectedPages /\ loading /\ calls = {}

\* C21: every read of the view the application issues is filtered by the id
\* of the user of the current session: the read is issued for session.user.id
\* while a session exists, and every record it brings to the Dashboard carries
\* that user id.
C21_ViewReadsFilteredBySessionUser ==
  [][ /\ \A c \in calls' \ calls :
           c.await = "fetchRecommendations" => (session # NULL /\ c.userId = session)
      /\ recipes' # recipes =>
           \A k \in DOMAIN recipes' : session # NULL /\ recipes'[k].user_id = session
    ]_vars
\* the Dashboard shows the records of the session's user while the view also
\* holds rows that are not that user's
C21_Witness ==
  /\ page = "dashboard" /\ ~loading /\ recipes # <<>>
  /\ \E row \in recipe_recommendations : row.user_id # session

\* C22: on each protected page, the step in which the last query of the mount
\* effect returns, with or without an error, leaves loading false.
C22_LoadingEndsWhenQueriesReturned ==
  [][ (/\ page \in ProtectedPages /\ page' = page
       /\ LoadCalls(calls) # {} /\ LoadCalls(calls') = {}) => ~loading'
    ]_vars
\* a page has finished loading although one of its queries failed
C22_Witness ==
  /\ page \in ProtectedPages /\ ~loading /\ calls = {}
  /\ toast \in {"Failed to load ingredients", "Failed to load recipe",
                "Failed to load recommendations", "Failed to load pantry items"}

\* C27: a protected page whose getSession finds no session issues no query:
\* the step leaves no call awaiting a response and changes no table and no
\* list; the page is left for /auth.
C27_NoQueryWithoutSession ==
  [][ (PreGate /\ session = NULL) =>
        /\ calls' = {}
        /\ UNCHANGED <<stores, session>>
        /\ page' # page => (page' \in Pages \cup {"recipe"} /\ recipes' = <<>>
                             /\ pantryItems' = {} /\ restrictions' = {})
        /\ page' = page => UNCHANGED <<recipes, pantryItems, restrictions, ingredientOptions,
                                       recipe, components, loading>>
    ]_vars
\* the browser is on /auth without a session while the store holds the rows
\* of a user who had one
C27_Witness ==
  /\ page = "auth" /\ session = NULL /\ toast = NoToast
  /\ user_pantry # {} /\ user_restrictions # {}

\* ---- the add and remove handlers of Pantry and Restrictions ----
AddFns == {"addToPantry", "addRestriction"}
RemoveFns == {"removeFromPantry", "removeRestriction"}
InsertAwaits == {"user_pantry.insert", "user_restrictions.insert"}
RefetchAwaits == {"fetchPantryItems", "fetchRestrictions"}
\* the call c ends in this step: no call of calls' carries its number
Ends(c) == c \in calls /\ ~ \E d \in calls' : d.n = c.n
\* the call c goes on in this step to the await named `await`
GoesOn(c, await) == c \in calls /\ c \notin calls' /\ \E d \in calls' : d.n = c.n /\ d.await = await
\* the messages the catch blocks of addToPantry and addRestriction can show
AddErrorToasts ==
  {"Not authenticated", "Failed to add ingredient", "Failed to add restriction",
   "duplicate key value violates unique constraint", "violates foreign key constraint",
   "new row violates row-level security policy"}

\* C23: an add that fails (no authenticated user, or the insert is rejected)
\* shows an error message and changes nothing else: the dialog stays as it
\* was, the form fields and the displayed list keep their values, no row is
\* stored and no refetch is issued.
C23_FailedAddChangesNothing ==
  [][ \A c \in calls :
        (c.fn \in AddFns /\ c.await \in {"auth.getUser"} \cup InsertAwaits /\ Ends(c)) =>
          /\ toast' \in AddErrorToasts
          /\ calls' = calls \ {c}
          /\ UNCHANGED <<dialogOpen, form, pantryItems, restrictions, stores>> ]_vars
\* a rejected duplicate insert left the open dialog with its selection
C23_Witness ==
  /\ toast = "duplicate key value violates unique constraint"
  /\ dialogOpen
  /\ form.selectedIngredient # ""
  /\ pantryItems \cup restrictions # {}
  /\ ~ \E c \in calls : c.fn \in AddFns

\* C30: pressing Add while no ingredient is selected only shows "Please
\* select an ingredient": no add call is started (so no getUser, no insert),
\* no row is written, and the dialog, the form fields and the displayed list
\* keep their values.
C30_AddWithoutSelectionOnlyReports ==
  [][ /\ form.selectedIngredient = "" =>
           \A d \in calls' : d.fn \in AddFns => \E c \in calls : c.n = d.n
      /\ (toast' = "Please select an ingredient" /\ toast # toast') =>
           UNCHANGED <<stores, session, page, loading, calls, dialogOpen, form,
                       pantryItems, restrictions, ingredientOptions>> ]_vars
\* the message is shown over an open dialog with a typed field and a listed row
C30_Witness ==
  /\ toast = "Please select an ingredient"
  /\ dialogOpen
  /\ form.selectedIngredient = ""
  /\ form.unit # "" \/ form.notes # ""
  /\ pantryItems \cup restrictions # {}
  /\ calls = {}

RemoveSuccessToasts == {"Ingredient removed from pantry", "Restriction removed"}
\* the remove call c returns in this step and its delete succeeded
RemoveSucceeds(c) == c.fn \in RemoveFns /\ Ends(c) /\ toast' \in RemoveSuccessToasts

\* C26: under any interleaving of removals whose deletes succeed, a removal
\* that completes makes no removed item reappear: every item displayed after
\* the step was displayed before it or is a row remaining in the store.
C26_RemovedItemNeverReappears ==
  [][ \A c \in calls : RemoveSucceeds(c) =>
        /\ pantryItems' \subseteq pantryItems \cup user_pantry'
        /\ restrictions' \subseteq restrictions \cup user_restrictions' ]_vars

RemoveErrorToasts == {"Failed to remove ingredient", "Failed to remove restriction"}

\* C28: a removal whose delete succeeds takes exactly its item out of the
\* displayed list and keeps every other item; a removal whose delete fails
\* leaves the displayed list as it was and shows an error message.
C28_RemoveChangesOnlyItsItem ==
  [][ \A c \in calls : (c.fn \in RemoveFns /\ Ends(c)) =>
        IF toast' \in RemoveSuccessToasts
          THEN /\ c.fn = "removeFromPantry" =>
                    pantryItems' = pantryItems \ {ItemOf(c)} /\ UNCHANGED restrictions
               /\ c.fn = "removeRestriction" =>
                    restrictions' = restrictions \ {ItemOf(c)} /\ UNCHANGED pantryItems
          ELSE /\ toast' \in RemoveErrorToasts
               /\ UNCHANGED <<pantryItems, restrictions>> ]_vars

\* the add call c returns from its insert in this step and the row is stored
AddSucceeds(c) ==
  /\ c.fn \in AddFns /\ c.await \in InsertAwaits /\ c \in calls /\ c \notin calls'
  /\ user_pantry' # user_pantry \/ user_restrictions' # user_restrictions
\* the add call c returns from its refetch in this step
RefetchReturns(c) == c.fn \in AddFns /\ c.await \in RefetchAwaits /\ Ends(c)
\* a successful add closes the dialog, resets the form and issues the refetch
AddSuccessEffects(c) ==
  /\ dialogOpen' = FALSE
  /\ form'.selectedIngredient = ""
  /\ c.fn = "addToPantry" =>
       /\ form'.quantity = "1" /\ form'.unit = ""
       /\ \E d \in calls' : d.n = c.n /\ d.await = "fetchPantryItems" /\ d.userId = c.userId
  /\ c.fn = "addRestriction" =>
       /\ form'.restrictionType = "allergy" /\ form'.notes = ""
       /\ \E d \in calls' : d.n = c.n /\ d.await = "fetchRestrictions" /\ d.userId = c.userId

\* C29 as stated: a successful add closes the dialog, resets the form and
\* issues the refetch, and once the refetch returns the displayed list equals
\* the user's stored rows.
C29_AddSucceedsListEqualsStore ==
  [][ \A c \in calls :
        /\ AddSucceeds(c) => AddSuccessEffects(c)
        /\ RefetchReturns(c) =>
             /\ c.fn = "addToPantry" =>
                  pantryItems' = { up \in user_pantry : up.user_id = c.userId }
             /\ c.fn = "addRestriction" =>
                  restrictions' = { ur \in user_restrictions : ur.user_id = c.userId } ]_vars

\* C29 (amended): a successful add closes the dialog, resets the form and
\* issues the refetch for the user; when the refetch returns, either the
\* displayed list equals the user's stored rows that the session may read
\* (none once the session has ended), or the failure of the fetch is shown and
\* the displayed list is left as it was.
C29_AddSucceedsRefetchReturns ==
  [][ \A c \in calls :
        /\ AddSucceeds(c) => AddSuccessEffects(c)
        /\ RefetchReturns(c) =>
             /\ c.fn = "addToPantry" =>
                  \/ pantryItems' = { up \in user_pantry :
                                        up.user_id = c.userId /\ session = c.userId }
                  \/ toast' = "Failed to load pantry items" /\ UNCHANGED pantryItems
             /\ c.fn = "addRestriction" =>
                  \/ restrictions' = { ur \in user_restrictions :
                                         ur.user_id = c.userId /\ session = c.userId }
                  \/ toast' = "Failed to load restrictions" /\ UNCHANGED restrictions ]_vars
\* the refetch of a second add has returned: the dialog is closed, the form is
\* at its defaults and both stored rows are displayed
C29_Witness ==
  /\ toast \in {"Ingredient added to pantry", "Restriction added successfully"}
  /\ ~dialogOpen
  /\ form = InitialForm
  /\ calls = {}
  /\ Cardinality(pantryItems \cup restrictions) = 2
  /\ pantryItems = user_pantry
  /\ restrictions = user_restrictions
====
